---- MODULE Spec2Model ----
(***************************************************************************)
(* Session transport manager of the HireSmart front end:                   *)
(* frontend/src/contexts/WebSocketContext.tsx (WebSocketProvider).         *)
(*                                                                         *)
(* The provider's React state and refs are the variables; every exported   *)
(* operation, every socket event handler and the reconnect timer callback  *)
(* is one action.  The browser side (WebSocket objects, setTimeout) is the *)
(* environment: a socket keeps its handlers for its whole life, whether or *)
(* not wsRef still refers to it, and every callback carries the token and  *)
(* isAuthenticated values of the render that created it.                   *)
(*                                                                         *)
(* Sockets and timers live in slots.  A socket whose close event has been  *)
(* dispatched and that wsRef no longer holds is garbage and its slot is    *)
(* freed; so is a timer that fired or was cleared and that                 *)
(* reconnectTimeoutRef no longer holds.  A closed socket or an expired     *)
(* timer that is still held keeps nothing but its state.                   *)
(***************************************************************************)
EXTENDS Integers, Sequences, FiniteSets, TLC

----------------------------------------------------------------------------
(* Bounds of the model *)

MaxLive == 2           \* connection attempts under way: live sockets + pending timers
MaxLiveLog == 1        \* the same, in the specification with the message log
MaxSends == 1          \* frames a consumer transmits on one socket
MaxMsgs == 2           \* inbound frames recorded in the message log
MaxFailures == 7       \* the count of unexpected closures saturates here

(* Program constants *)

maxReconnectAttempts == 5
NORMAL_CLOSURE == 1000
GOING_AWAY == 1001
ABNORMAL_CLOSURE == 1006
BaseDelay == 1000
MaxDelay == 30000

NoToken == "null"
Tokens == {"tokA", "tokB"}
SessionIds == {"abc123"}
SessionTypes == {"interview", "coding"}
Payloads == {"payload"}

\* close codes a close event can carry when the connection was not failed
CleanCodes == {NORMAL_CLOSURE, GOING_AWAY}

SocketSlots == 1..(MaxLive + 1)
TimerSlots == 1..(MaxLive + 1)

----------------------------------------------------------------------------
VARIABLES
    isAuthenticated,      \* useAuth().isAuthenticated
    token,                \* useAuth().token
    isConnected,          \* useState(false)
    connectionStatus,     \* useState('disconnected')
    lastMessage,          \* useState(null)
    messages,             \* useState([])
    wsRef,                \* useRef<WebSocket|null>: 0 is null, else a socket slot
    reconnectTimeoutRef,  \* useRef<Timeout|null>: 0 is null, else a timer slot
    reconnectAttemptsRef, \* useRef(0)
    sockets,              \* the WebSocket objects, by slot
    timers,               \* the setTimeout handles, by slot
    failures,             \* unexpected closures since the attempts were last reset
    last                  \* the step just taken: operation, outputs, thrown error

vars == <<isAuthenticated, token, isConnected, connectionStatus, lastMessage,
          messages, wsRef, reconnectTimeoutRef, reconnectAttemptsRef,
          sockets, timers, failures, last>>

authVars == <<isAuthenticated, token>>
logVars == <<lastMessage, messages>>

----------------------------------------------------------------------------
(* Helpers *)

Min(a, b) == IF a < b THEN a ELSE b

RECURSIVE Pow2(_)
Pow2(n) == IF n = 0 THEN 1 ELSE 2 * Pow2(n - 1)

NoEnv == [isAuthenticated |-> FALSE, token |-> NoToken]

FreeSocket ==
    [phase |-> "FREE", sessionId |-> "", sessionType |-> "", env |-> NoEnv,
     sent |-> <<>>]
ClosedSocket == [FreeSocket EXCEPT !.phase = "CLOSED"]

FreeTimer ==
    [status |-> "free", delay |-> 0, sessionId |-> "", sessionType |-> "",
     env |-> NoEnv, disconnected |-> FALSE]
ExpiredTimer == [FreeTimer EXCEPT !.status = "expired"]

\* WebSocket.readyState of a socket in a given phase of its life.
\* ABORTING: close() was called before the connection was established.
\* FAILED: the connection was failed, the error event was dispatched and the
\* close event of the same task is still to be dispatched.
ReadyState(sock) ==
    CASE sock.phase = "CONNECTING" -> "CONNECTING"
      [] sock.phase = "OPEN" -> "OPEN"
      [] sock.phase \in {"CLOSING", "ABORTING"} -> "CLOSING"
      [] sock.phase \in {"FAILED", "CLOSED"} -> "CLOSED"

Live == {s \in SocketSlots : sockets[s].phase \notin {"FREE", "CLOSED"}}
Pending == {k \in TimerSlots : timers[k].status = "pending"}

\* error and close of a failed connection are dispatched in one task
Dispatching == \E s \in SocketSlots : sockets[s].phase = "FAILED"

LowestFree(free) == CHOOSE s \in free : \A t \in free : s <= t
FreeSocketSlot == LowestFree({s \in SocketSlots : sockets[s].phase = "FREE"})
FreeTimerSlot == LowestFree({k \in TimerSlots : timers[k].status = "free"})

\* drop the closed sockets that ref does not hold
CollectSockets(socks, ref) ==
    [s \in SocketSlots |->
        IF socks[s].phase = "CLOSED" /\ s # ref THEN FreeSocket ELSE socks[s]]

\* drop the expired timers that ref does not hold
CollectTimers(tms, ref) ==
    [k \in TimerSlots |->
        IF tms[k].status = "expired" /\ k # ref THEN FreeTimer ELSE tms[k]]

wsUrl(sessionId, sessionType) ==
    IF sessionType = "interview"
    THEN <<"ws", "interview", sessionId>>
    ELSE <<"ws", "coding", sessionId>>

AuthFrame(tok) == [by |-> "manager", kind |-> "json", type |-> "auth", body |-> tok]
JsonFrame(p) == [by |-> "consumer", kind |-> "json", type |-> "message", body |-> p]
BinaryFrame(p) == [by |-> "consumer", kind |-> "binary", type |-> "binary", body |-> p]

ConsumerSent(sock) == {i \in 1..Len(sock.sent) : sock.sent[i].by = "consumer"}

\* arg: the frame an onmessage step received, the length of the log a
\* clearMessages step emptied
Step(op, sock, code, pre, toasts, threw) ==
    [op |-> op, sock |-> sock, code |-> code, pre |-> pre,
     toasts |-> toasts, threw |-> threw, arg |-> <<>>]

Toast(level, text) == [level |-> level, text |-> text]

TOAST_CONN_ERROR ==
    Toast("error", "Connection error. Please check your internet connection.")
TOAST_UNABLE == Toast("error", "Unable to reconnect. Please refresh the page.")
TOAST_LOST == Toast("error", "Connection lost. Please reconnect.")

NullValue == [type |-> "<null>", data |-> "<none>"]

----------------------------------------------------------------------------
Init ==
    /\ isAuthenticated = FALSE
    /\ token = NoToken
    /\ isConnected = FALSE
    /\ connectionStatus = "disconnected"
    /\ lastMessage = NullValue
    /\ messages = <<>>
    /\ wsRef = 0
    /\ reconnectTimeoutRef = 0
    /\ reconnectAttemptsRef = 0
    /\ sockets = [s \in SocketSlots |-> FreeSocket]
    /\ timers = [k \in TimerSlots |-> FreeTimer]
    /\ failures = 0
    /\ last = Step("init", 0, 0, 0, <<>>, FALSE)

----------------------------------------------------------------------------
(* Auth source (AuthProvider) *)

Login(t) ==
    /\ ~Dispatching
    /\ isAuthenticated' = TRUE
    /\ token' = t
    /\ last' = Step("login", 0, 0, reconnectAttemptsRef, <<>>, FALSE)
    /\ UNCHANGED <<isConnected, connectionStatus, logVars, wsRef,
                   reconnectTimeoutRef, reconnectAttemptsRef, sockets, timers,
                   failures>>

----------------------------------------------------------------------------
(* connect *)

\* a slip: connect without its test for a held socket that is open
connectOutcome_NoOpenCheck(env, urlOk) ==
    IF ~env.isAuthenticated \/ env.token = NoToken THEN "unauthenticated"
    ELSE IF ~urlOk THEN "threw"
    ELSE "created"
\* the outcome of one call of connect with the values its closure captured
connectOutcome(env, urlOk) ==
    IF ~env.isAuthenticated \/ env.token = NoToken THEN "unauthenticated"
    ELSE IF wsRef # 0 /\ ReadyState(sockets[wsRef]) = "OPEN" THEN "already"
    ELSE IF ~urlOk THEN "threw"
    ELSE "created"

NewSocket(sessionId, sessionType, env) ==
    [phase |-> "CONNECTING", sessionId |-> sessionId,
     sessionType |-> sessionType, env |-> env, sent |-> <<>>]

connect(sessionId, sessionType, env, urlOk) ==
    LET outcome == connectOutcome(env, urlOk) IN
    CASE outcome \in {"unauthenticated", "already"} ->
            UNCHANGED <<connectionStatus, wsRef, sockets>>
      [] outcome = "threw" ->
            /\ connectionStatus' = "error"
            /\ UNCHANGED <<wsRef, sockets>>
      [] outcome = "created" ->
            /\ connectionStatus' = "connecting"
            /\ wsRef' = FreeSocketSlot
            /\ sockets' = CollectSockets(
                   [sockets EXCEPT ![FreeSocketSlot] =
                        NewSocket(sessionId, sessionType, env)],
                   FreeSocketSlot)

\* the model's bound on the connection attempts a consumer has under way
Room(cap) == Cardinality(Live) + Cardinality(Pending) < cap

Connect(sessionId, sessionType, urlOk, cap) ==
    LET env == [isAuthenticated |-> isAuthenticated, token |-> token] IN
    /\ ~Dispatching
    /\ connectOutcome(env, urlOk) = "created" => Room(cap)
    /\ connect(sessionId, sessionType, env, urlOk)
    /\ last' = Step("connect", 0, 0, reconnectAttemptsRef, <<>>, FALSE)
    /\ UNCHANGED <<authVars, isConnected, logVars, reconnectTimeoutRef,
                   reconnectAttemptsRef, timers, failures>>

----------------------------------------------------------------------------
(* socket event handlers installed by connect *)

\* wsRef.current.send(data) as the browser executes it on the held socket:
\* it throws while the socket is CONNECTING, transmits while it is OPEN and
\* discards the data silently once it is CLOSING or CLOSED.
sendOutcome(socks) ==
    IF wsRef = 0 THEN "none"
    ELSE CASE ReadyState(socks[wsRef]) = "CONNECTING" -> "threw"
           [] ReadyState(socks[wsRef]) = "OPEN" -> "sent"
           [] OTHER -> "discarded"

transmit(socks, frame) ==
    [socks EXCEPT ![wsRef].sent = Append(@, frame)]

\* a slip: onopen forgets to reset the attempts
OnOpen_NoReset(s) ==
    LET opened == [sockets EXCEPT ![s].phase = "OPEN"] IN
    /\ ~Dispatching
    /\ sockets[s].phase = "CONNECTING"
    /\ isConnected' = TRUE
    /\ connectionStatus' = "connected"
    /\ failures' = 0
    /\ sockets' = IF sendOutcome(opened) = "sent"
                  THEN transmit(opened, AuthFrame(sockets[s].env.token))
                  ELSE opened
    /\ last' = Step("open", s, 0, reconnectAttemptsRef, <<>>,
                    sendOutcome(opened) = "threw")
    /\ UNCHANGED <<authVars, logVars, wsRef, reconnectTimeoutRef,
                   reconnectAttemptsRef, timers>>

OnOpen(s) ==
    LET opened == [sockets EXCEPT ![s].phase = "OPEN"] IN
    /\ ~Dispatching
    /\ sockets[s].phase = "CONNECTING"
    /\ isConnected' = TRUE
    /\ connectionStatus' = "connected"
    /\ reconnectAttemptsRef' = 0
    /\ failures' = 0
    /\ sockets' = IF sendOutcome(opened) = "sent"
                  THEN transmit(opened, AuthFrame(sockets[s].env.token))
                  ELSE opened
    /\ last' = Step("open", s, 0, reconnectAttemptsRef, <<>>,
                    sendOutcome(opened) = "threw")
    /\ UNCHANGED <<authVars, logVars, wsRef, reconnectTimeoutRef, timers>>

\* inbound frames (event.data) and JSON.parse
MessageTypes == {"connection_established", "real_time_feedback",
                 "coding_execution_result", "interview_question", "error",
                 "something_else"}
RawFrames ==
    {<<"garbage">>, <<"null">>}
        \cup {<<"object", t, "<none>">> : t \in MessageTypes}
        \cup {<<"object", "error", "boom">>}

\* a slip: a frame that is not JSON yields a value instead of throwing
JSONparse_Lenient(raw) ==
    CASE raw[1] = "garbage" -> [ok |-> TRUE, value |-> NullValue]
      [] raw[1] = "null" -> [ok |-> TRUE, value |-> NullValue]
      [] OTHER -> [ok |-> TRUE, value |-> [type |-> raw[2], data |-> raw[3]]]
JSONparse(raw) ==
    CASE raw[1] = "garbage" -> [ok |-> FALSE, value |-> NullValue]
      [] raw[1] = "null" -> [ok |-> TRUE, value |-> NullValue]
      [] OTHER -> [ok |-> TRUE, value |-> [type |-> raw[2], data |-> raw[3]]]

\* a slip: the text a server error carries is ignored
handleWebSocketMessage_GenericError(message) ==
    IF message = NullValue THEN [toasts |-> <<>>, threw |-> TRUE]
    ELSE CASE message.type = "connection_established" ->
                [toasts |-> <<Toast("success", "Connected to HireSmart AI")>>,
                 threw |-> FALSE]
           [] message.type = "error" ->
                [toasts |-> <<Toast("error", "An error occurred")>>,
                 threw |-> FALSE]
           [] OTHER -> [toasts |-> <<>>, threw |-> FALSE]
\* handleWebSocketMessage: the notifications it raises, and whether it throws
handleWebSocketMessage(message) ==
    IF message = NullValue THEN [toasts |-> <<>>, threw |-> TRUE]
    ELSE CASE message.type = "connection_established" ->
                [toasts |-> <<Toast("success", "Connected to HireSmart AI")>>,
                 threw |-> FALSE]
           [] message.type = "error" ->
                [toasts |-> <<Toast("error",
                                    IF message.data # "<none>" THEN message.data
                                    ELSE "An error occurred")>>,
                 threw |-> FALSE]
           [] OTHER -> [toasts |-> <<>>, threw |-> FALSE]

\* a slip: the new message is put in front of the log
OnMessage_Prepend(s, raw) ==
    LET parsed == JSONparse(raw) IN
    /\ ~Dispatching
    /\ sockets[s].phase \in {"OPEN", "CLOSING"}
    /\ IF parsed.ok
       THEN /\ Len(messages) < MaxMsgs
            /\ lastMessage' = parsed.value
            /\ messages' = <<parsed.value>> \o messages
            /\ last' = [Step("message", s, 0, reconnectAttemptsRef,
                             handleWebSocketMessage(parsed.value).toasts, FALSE)
                         EXCEPT !.arg = raw]
       ELSE /\ UNCHANGED logVars
            /\ last' = [Step("message", s, 0, reconnectAttemptsRef, <<>>, FALSE)
                         EXCEPT !.arg = raw]
    /\ UNCHANGED <<authVars, isConnected, connectionStatus, wsRef,
                   reconnectTimeoutRef, reconnectAttemptsRef, sockets, timers,
                   failures>>
OnMessage(s, raw) ==
    LET parsed == JSONparse(raw) IN
    /\ ~Dispatching
    /\ sockets[s].phase \in {"OPEN", "CLOSING"}
    /\ IF parsed.ok
       THEN /\ Len(messages) < MaxMsgs
            /\ lastMessage' = parsed.value
            /\ messages' = Append(messages, parsed.value)
            /\ last' = [Step("message", s, 0, reconnectAttemptsRef,
                             handleWebSocketMessage(parsed.value).toasts, FALSE)
                         EXCEPT !.arg = raw]
       ELSE /\ UNCHANGED logVars
            /\ last' = [Step("message", s, 0, reconnectAttemptsRef, <<>>, FALSE)
                         EXCEPT !.arg = raw]
    /\ UNCHANGED <<authVars, isConnected, connectionStatus, wsRef,
                   reconnectTimeoutRef, reconnectAttemptsRef, sockets, timers,
                   failures>>

\* a slip: the exponent counts the attempts from zero
Delay_FromZero(attempt) == Min(BaseDelay * Pow2(attempt - 1), MaxDelay)

\* Math.min(1000 * Math.pow(2, attempt), 30000)
Delay(attempt) == Min(BaseDelay * Pow2(attempt), MaxDelay)

\* a slip: the reconnect always targets the interview endpoint
NewTimer_FixedKind(sessionId, sessionType, env, attempt) ==
    [status |-> "pending", delay |-> Delay(attempt),
     sessionId |-> sessionId, sessionType |-> "interview", env |-> env,
     disconnected |-> FALSE]

NewTimer(sessionId, sessionType, env, attempt) ==
    [status |-> "pending", delay |-> Delay(attempt),
     sessionId |-> sessionId, sessionType |-> sessionType, env |-> env,
     disconnected |-> FALSE]

attemptReconnectToasts ==
    IF reconnectAttemptsRef >= maxReconnectAttempts
    THEN <<TOAST_UNABLE>> ELSE <<>>

\* a slip: the attempt is counted twice
attemptReconnect_CountsTwice(sessionId, sessionType, env) ==
    IF reconnectAttemptsRef >= maxReconnectAttempts
    THEN UNCHANGED <<reconnectAttemptsRef, reconnectTimeoutRef, timers>>
    ELSE /\ reconnectAttemptsRef' = reconnectAttemptsRef + 2
         /\ reconnectTimeoutRef' = FreeTimerSlot
         /\ timers' = CollectTimers(
                [timers EXCEPT ![FreeTimerSlot] =
                     NewTimer(sessionId, sessionType, env,
                              reconnectAttemptsRef + 2)],
                FreeTimerSlot)
\* a slip: the attempt is not counted
attemptReconnect_NoCount(sessionId, sessionType, env) ==
    IF reconnectAttemptsRef >= maxReconnectAttempts
    THEN UNCHANGED <<reconnectAttemptsRef, reconnectTimeoutRef, timers>>
    ELSE /\ reconnectAttemptsRef' = reconnectAttemptsRef
         /\ reconnectTimeoutRef' = FreeTimerSlot
         /\ timers' = CollectTimers(
                [timers EXCEPT ![FreeTimerSlot] =
                     NewTimer(sessionId, sessionType, env,
                              reconnectAttemptsRef + 1)],
                FreeTimerSlot)
attemptReconnect(sessionId, sessionType, env) ==
    IF reconnectAttemptsRef >= maxReconnectAttempts
    THEN UNCHANGED <<reconnectAttemptsRef, reconnectTimeoutRef, timers>>
    ELSE /\ reconnectAttemptsRef' = reconnectAttemptsRef + 1
         /\ reconnectTimeoutRef' = FreeTimerSlot
         /\ timers' = CollectTimers(
                [timers EXCEPT ![FreeTimerSlot] =
                     NewTimer(sessionId, sessionType, env,
                              reconnectAttemptsRef + 1)],
                FreeTimerSlot)

\* a slip: the close code is not looked at
shouldReconnect_AnyCode(code) ==
    reconnectAttemptsRef < maxReconnectAttempts

\* a slip: the last attempt is never made
shouldReconnect_OffByOne(code) ==
    code # NORMAL_CLOSURE /\ reconnectAttemptsRef + 1 < maxReconnectAttempts

\* the test of onclose that decides whether attemptReconnect is called
shouldReconnect(code) ==
    code # NORMAL_CLOSURE /\ reconnectAttemptsRef < maxReconnectAttempts

\* the close codes the browser can report for a socket in its present phase
CloseCodes(s) ==
    CASE sockets[s].phase \in {"OPEN", "CLOSING"} -> CleanCodes
      [] sockets[s].phase = "FAILED" -> {ABNORMAL_CLOSURE}
      [] OTHER -> {}

OnClose(s, code) ==
    /\ code \in CloseCodes(s)
    /\ sockets' = CollectSockets([sockets EXCEPT ![s] = ClosedSocket], wsRef)
    /\ isConnected' = FALSE
    /\ connectionStatus' = "disconnected"
    /\ IF shouldReconnect(code)
       THEN /\ attemptReconnect(sockets[s].sessionId, sockets[s].sessionType,
                                sockets[s].env)
            /\ last' = Step("close", s, code, reconnectAttemptsRef,
                            attemptReconnectToasts, FALSE)
       ELSE /\ UNCHANGED <<reconnectAttemptsRef, reconnectTimeoutRef, timers>>
            /\ last' = Step("close", s, code, reconnectAttemptsRef, <<>>, FALSE)
    /\ failures' = IF code # NORMAL_CLOSURE
                   THEN Min(failures + 1, MaxFailures) ELSE failures
    /\ UNCHANGED <<authVars, logVars, wsRef>>

\* a slip: the error handler starts the reconnection itself
OnError_Retries(s) ==
    /\ ~Dispatching
    /\ sockets[s].phase \in {"CONNECTING", "OPEN", "CLOSING", "ABORTING"}
    /\ sockets' = [sockets EXCEPT ![s].phase = "FAILED"]
    /\ connectionStatus' = "error"
    /\ attemptReconnect(sockets[s].sessionId, sockets[s].sessionType,
                        sockets[s].env)
    /\ last' = Step("error", s, 0, reconnectAttemptsRef,
                    <<TOAST_CONN_ERROR>>, FALSE)
    /\ UNCHANGED <<authVars, isConnected, logVars, wsRef, failures>>
OnError(s) ==
    /\ ~Dispatching
    /\ sockets[s].phase \in {"CONNECTING", "OPEN", "CLOSING", "ABORTING"}
    /\ sockets' = [sockets EXCEPT ![s].phase = "FAILED"]
    /\ connectionStatus' = "error"
    /\ last' = Step("error", s, 0, reconnectAttemptsRef,
                    <<TOAST_CONN_ERROR>>, FALSE)
    /\ UNCHANGED <<authVars, isConnected, logVars, wsRef, reconnectTimeoutRef,
                   reconnectAttemptsRef, timers, failures>>

\* the callback handed to setTimeout by attemptReconnect
TimerFire(k, urlOk) ==
    /\ ~Dispatching
    /\ timers[k].status = "pending"
    /\ timers' = CollectTimers([timers EXCEPT ![k] = ExpiredTimer],
                               reconnectTimeoutRef)
    /\ connect(timers[k].sessionId, timers[k].sessionType, timers[k].env,
               urlOk)
    /\ last' = Step("timer", k, 0, reconnectAttemptsRef, <<>>, FALSE)
    /\ UNCHANGED <<authVars, isConnected, logVars, reconnectTimeoutRef,
                   reconnectAttemptsRef, failures>>

----------------------------------------------------------------------------
(* disconnect *)

\* clearTimeout(handle): cancels the timer if it has not fired yet
clearTimeout(k, tms) ==
    [i \in TimerSlots |->
        IF i = k /\ tms[i].status = "pending" THEN ExpiredTimer ELSE tms[i]]

\* WebSocket.close(): starts the closing handshake of an open socket, fails a
\* connection that is not yet established, does nothing otherwise
closeSocket(sock) ==
    CASE sock.phase = "OPEN" -> [sock EXCEPT !.phase = "CLOSING"]
      [] sock.phase = "CONNECTING" -> [sock EXCEPT !.phase = "ABORTING"]
      [] OTHER -> sock

\* history: the timers that were pending when a disconnect ran
MarkDisconnected(tms) ==
    [i \in TimerSlots |->
        IF tms[i].status = "pending"
        THEN [tms[i] EXCEPT !.disconnected = TRUE] ELSE tms[i]]

\* a slip: disconnect forgets to reset the attempts
disconnect_KeepAttempts ==
    /\ timers' = CollectTimers(
                    IF reconnectTimeoutRef # 0
                    THEN MarkDisconnected(clearTimeout(reconnectTimeoutRef, timers))
                    ELSE MarkDisconnected(timers),
                    0)
    /\ reconnectTimeoutRef' = 0
    /\ sockets' = CollectSockets(
                    IF wsRef # 0
                    THEN [sockets EXCEPT ![wsRef] = closeSocket(sockets[wsRef])]
                    ELSE sockets,
                    0)
    /\ wsRef' = 0
    /\ isConnected' = FALSE
    /\ connectionStatus' = "disconnected"
    /\ UNCHANGED reconnectAttemptsRef
    /\ failures' = 0

disconnect ==
    /\ timers' = CollectTimers(
                    IF reconnectTimeoutRef # 0
                    THEN MarkDisconnected(clearTimeout(reconnectTimeoutRef, timers))
                    ELSE MarkDisconnected(timers),
                    0)
    /\ reconnectTimeoutRef' = 0
    /\ sockets' = CollectSockets(
                    IF wsRef # 0
                    THEN [sockets EXCEPT ![wsRef] = closeSocket(sockets[wsRef])]
                    ELSE sockets,
                    0)
    /\ wsRef' = 0
    /\ isConnected' = FALSE
    /\ connectionStatus' = "disconnected"
    /\ reconnectAttemptsRef' = 0
    /\ failures' = 0

\* disconnect() called by a consumer, or by the unmount effect
Disconnect(caller) ==
    /\ ~Dispatching
    /\ disconnect
    /\ last' = Step(caller, wsRef, 0, reconnectAttemptsRef, <<>>, FALSE)
    /\ UNCHANGED <<authVars, logVars>>

\* AuthProvider.logout, and the effect on [isAuthenticated] that follows it
Logout ==
    /\ ~Dispatching
    /\ isAuthenticated
    /\ isAuthenticated' = FALSE
    /\ token' = NoToken
    /\ disconnect
    /\ last' = Step("logout", wsRef, 0, reconnectAttemptsRef, <<>>, FALSE)
    /\ UNCHANGED logVars

----------------------------------------------------------------------------
(* outbound frames *)

\* a slip: the held socket's readyState is not looked at
send_AnyState(op, frame) ==
    IF wsRef # 0
    THEN /\ Cardinality(ConsumerSent(sockets[wsRef])) < MaxSends
         /\ sockets' = transmit(sockets, frame)
         /\ last' = Step(op, wsRef, 0, reconnectAttemptsRef, <<>>, FALSE)
    ELSE /\ UNCHANGED sockets
         /\ last' = Step(op, wsRef, 0, reconnectAttemptsRef,
                         <<TOAST_LOST>>, FALSE)

send(op, frame) ==
    IF wsRef # 0 /\ ReadyState(sockets[wsRef]) = "OPEN"
    THEN /\ Cardinality(ConsumerSent(sockets[wsRef])) < MaxSends
         /\ sockets' = transmit(sockets, frame)
         /\ last' = Step(op, wsRef, 0, reconnectAttemptsRef, <<>>, FALSE)
    ELSE /\ UNCHANGED sockets
         /\ last' = Step(op, wsRef, 0, reconnectAttemptsRef,
                         <<TOAST_LOST>>, FALSE)

SendMessage(message) ==
    /\ ~Dispatching
    /\ send("sendMessage", JsonFrame(message))
    /\ UNCHANGED <<authVars, isConnected, connectionStatus, logVars, wsRef,
                   reconnectTimeoutRef, reconnectAttemptsRef, timers,
                   failures>>

SendBinaryData(data) ==
    /\ ~Dispatching
    /\ send("sendBinaryData", BinaryFrame(data))
    /\ UNCHANGED <<authVars, isConnected, connectionStatus, logVars, wsRef,
                   reconnectTimeoutRef, reconnectAttemptsRef, timers,
                   failures>>

\* a slip: clearMessages forgets the last message
ClearMessages_KeepLast ==
    /\ ~Dispatching
    /\ messages' = <<>>
    /\ last' = [Step("clear", 0, 0, reconnectAttemptsRef, <<>>, FALSE)
                 EXCEPT !.arg = <<Len(messages)>>]
    /\ UNCHANGED <<authVars, isConnected, connectionStatus, lastMessage, wsRef,
                   reconnectTimeoutRef, reconnectAttemptsRef, sockets, timers,
                   failures>>
\* a slip: clearMessages also marks the connection as lost
ClearMessages_DropsStatus ==
    /\ ~Dispatching
    /\ messages' = <<>>
    /\ lastMessage' = NullValue
    /\ isConnected' = FALSE
    /\ connectionStatus' = "disconnected"
    /\ last' = [Step("clear", 0, 0, reconnectAttemptsRef, <<>>, FALSE)
                 EXCEPT !.arg = <<Len(messages)>>]
    /\ UNCHANGED <<authVars, wsRef, reconnectTimeoutRef, reconnectAttemptsRef,
                   sockets, timers, failures>>
ClearMessages ==
    /\ ~Dispatching
    /\ messages' = <<>>
    /\ lastMessage' = NullValue
    /\ last' = [Step("clear", 0, 0, reconnectAttemptsRef, <<>>, FALSE)
                 EXCEPT !.arg = <<Len(messages)>>]
    /\ UNCHANGED <<authVars, isConnected, connectionStatus, wsRef,
                   reconnectTimeoutRef, reconnectAttemptsRef, sockets, timers,
                   failures>>

----------------------------------------------------------------------------
NextLogin(toks) == \E t \in toks : Login(t)
NextConnect(kinds, cap) ==
    \E sessionId \in SessionIds, sessionType \in kinds, urlOk \in BOOLEAN :
        Connect(sessionId, sessionType, urlOk, cap)
NextTimer == \E k \in TimerSlots, urlOk \in BOOLEAN : TimerFire(k, urlOk)
NextOpen == \E s \in SocketSlots : OnOpen(s)
NextMessageOf(raws) == \E s \in SocketSlots, raw \in raws : OnMessage(s, raw)
NextMessage == NextMessageOf(RawFrames)
NextClose ==
    \E s \in SocketSlots, code \in CleanCodes \cup {ABNORMAL_CLOSURE} :
        OnClose(s, code)
NextError == \E s \in SocketSlots : OnError(s)
NextDisconnect == \E caller \in {"disconnect", "unmount"} : Disconnect(caller)
NextSendMessage == \E p \in Payloads : SendMessage(p)
NextSendBinaryData == \E p \in Payloads : SendBinaryData(p)

\* the connection lifecycle of one session kind, its consumers, the auth source
Next ==
    \/ NextLogin({"tokA"})
    \/ Logout
    \/ NextConnect({"interview"}, MaxLive)
    \/ NextTimer
    \/ NextOpen
    \/ NextClose
    \/ NextError
    \/ NextDisconnect
    \/ NextSendMessage
    \/ NextSendBinaryData

Spec == Init /\ [][Next]_vars

\* the connection lifecycle with sessions of both kinds
NextKinds ==
    \/ NextLogin({"tokA"})
    \/ Logout
    \/ NextConnect(SessionTypes, MaxLive)
    \/ NextTimer
    \/ NextOpen
    \/ NextClose
    \/ NextError
    \/ NextDisconnect

SpecKinds == Init /\ [][NextKinds]_vars

\* every operation, inbound frames and the message log included
NextAll ==
    \/ NextLogin({"tokA"})
    \/ Logout
    \/ NextConnect({"interview"}, MaxLiveLog)
    \/ NextTimer
    \/ NextOpen
    \/ NextMessage
    \/ NextClose
    \/ NextError
    \/ NextDisconnect
    \/ NextSendMessage
    \/ NextSendBinaryData
    \/ ClearMessages

SpecAll == Init /\ [][NextAll]_vars

\* overlapping connection attempts while frames of one type arrive
NextRace ==
    \/ NextLogin({"tokA"})
    \/ Logout
    \/ NextConnect({"interview"}, MaxLive)
    \/ NextTimer
    \/ NextOpen
    \/ NextMessageOf({<<"object", "interview_question", "<none>">>})
    \/ NextClose
    \/ NextError
    \/ NextDisconnect

SpecRace == Init /\ [][NextRace]_vars

\* an outage: one connect by a consumer, after which no socket ever opens and
\* no consumer connects or disconnects; consumers may still try to send
NextFirstConnect ==
    \E sessionId \in SessionIds, sessionType \in SessionTypes :
        wsRef = 0 /\ Connect(sessionId, sessionType, TRUE, MaxLive)
NextTimerOk == \E k \in TimerSlots : TimerFire(k, TRUE)

NextOutage ==
    \/ NextLogin(Tokens)
    \/ NextFirstConnect
    \/ NextTimerOk
    \/ NextClose
    \/ NextError
    \/ NextSendMessage
    \/ NextSendBinaryData

\* every pending timer fires, every connection that cannot open fails
SpecOutage ==
    /\ Init
    /\ [][NextOutage]_vars
    /\ WF_vars(NextTimerOk)
    /\ WF_vars(NextError)
    /\ WF_vars(NextClose)

----------------------------------------------------------------------------
(* Properties *)

DisconnectOps == {"disconnect", "unmount", "logout"}
SendOps == {"sendMessage", "sendBinaryData"}

\* C1: after N consecutive unexpected closures, counted from the last reset of
\* the attempts, attemptCount is min(N, 5); and a closure that arrives while
\* attemptCount is 5 schedules no reconnect timer.
C1_AttemptsAreMinOfFailures ==
    /\ [](reconnectAttemptsRef = Min(failures, 5))
    /\ [][(last'.op = "close" /\ reconnectAttemptsRef = 5)
            => (Pending' = Pending /\ timers' = timers
                /\ reconnectTimeoutRef' = reconnectTimeoutRef)]_vars

C1_Witness ==
    /\ last.op = "close"
    /\ last.code # 1000
    /\ last.pre = 5
    /\ failures = 6
    /\ reconnectAttemptsRef = 5
    /\ Pending = {}

\* C2: the timer scheduled for attempt k waits 2000, 4000, 8000, 16000, 30000
\* ms for k = 1..5, and no scheduled delay is below 2000 or above 30000 ms.
BackoffTable == <<2000, 4000, 8000, 16000, 30000>>

C2_BackoffDelays ==
    /\ \A k \in Pending : timers[k].delay >= 2000 /\ timers[k].delay <= 30000
    /\ (last.op = "close" /\ reconnectAttemptsRef = last.pre + 1)
         => /\ reconnectAttemptsRef \in 1..5
            /\ reconnectTimeoutRef \in Pending
            /\ timers[reconnectTimeoutRef].delay
                 = BackoffTable[reconnectAttemptsRef]

C2_Witness ==
    /\ last.op = "close"
    /\ last.pre = 4
    /\ reconnectAttemptsRef = 5
    /\ reconnectTimeoutRef \in Pending
    /\ timers[reconnectTimeoutRef].delay = 30000

\* C3: an open event leaves ConnectionState connected and attemptCount 0,
\* whatever attemptCount was before.
C3_OpenResetsAttempts ==
    last.op = "open"
        => /\ connectionStatus = "connected"
           /\ isConnected
           /\ reconnectAttemptsRef = 0

C3_Witness ==
    /\ last.op = "open"
    /\ last.pre = 5
    /\ reconnectAttemptsRef = 0
    /\ connectionStatus = "connected"

\* C4: every connection that opens carries exactly one auth frame with the
\* token, sent on that connection before any consumer frame, and the manager
\* sends nothing else of its own.
C4_OneAuthFrameFirst ==
    \A s \in SocketSlots :
        sockets[s].phase \in {"OPEN", "CLOSING"}
            => /\ Len(sockets[s].sent) >= 1
               /\ sockets[s].sent[1] = AuthFrame(sockets[s].env.token)
               /\ \A i \in 2..Len(sockets[s].sent) :
                      sockets[s].sent[i].by = "consumer"

\* C5: a reconnect timer that was pending when disconnect() ran never fires.
C5_NoFireAfterDisconnect ==
    [][last'.op = "timer" => ~timers[last'.sock].disconnected]_vars

\* C6: an unexpected close with attemptCount < 5 leaves ConnectionState
\* disconnected, adds exactly 1 to attemptCount and schedules exactly one
\* timer which, when it fires, calls connect for the session id and kind of
\* the closed socket; from attemptCount 0 and code 1006 the timer waits 2000 ms.
C6_UnexpectedCloseSchedulesReconnect ==
    /\ [][(last'.op = "close" /\ last'.code # 1000 /\ reconnectAttemptsRef < 5)
            => /\ connectionStatus' = "disconnected"
               /\ ~isConnected'
               /\ reconnectAttemptsRef' = reconnectAttemptsRef + 1
               /\ reconnectTimeoutRef' \notin Pending
               /\ Pending' = Pending \cup {reconnectTimeoutRef'}
               /\ timers'[reconnectTimeoutRef'].sessionId
                    = sockets[last'.sock].sessionId
               /\ timers'[reconnectTimeoutRef'].sessionType
                    = sockets[last'.sock].sessionType
               /\ (reconnectAttemptsRef = 0 /\ last'.code = 1006)
                    => timers'[reconnectTimeoutRef'].delay = 2000]_vars
    /\ [][last'.op = "timer"
            => /\ timers'[last'.sock].status # "pending"
               /\ wsRef' # wsRef
                    => /\ sockets'[wsRef'].sessionId = timers[last'.sock].sessionId
                       /\ sockets'[wsRef'].sessionType
                            = timers[last'.sock].sessionType
                       /\ sockets'[wsRef'].phase = "CONNECTING"]_vars

C6_Witness ==
    /\ last.op = "close"
    /\ last.code = 1006
    /\ last.pre = 0
    /\ reconnectAttemptsRef = 1
    /\ isConnected = FALSE
    /\ connectionStatus = "disconnected"
    /\ reconnectTimeoutRef \in Pending
    /\ timers[reconnectTimeoutRef].delay = 2000
    /\ timers[reconnectTimeoutRef].sessionType = "coding"

\* C7: an unexpected close that arrives while attemptCount >= 5 emits the
\* terminal "unable to reconnect" notification and schedules no timer.
C7_TerminalNotification ==
    (last.op = "close" /\ last.code # 1000 /\ last.pre >= 5)
        => /\ \E i \in 1..Len(last.toasts) : last.toasts[i] = TOAST_UNABLE
           /\ reconnectTimeoutRef \notin Pending

\* C8: a close event with code 1000 leaves ConnectionState disconnected,
\* schedules no timer and does not change attemptCount.
C8_NormalCloseNoReconnect ==
    [][(last'.op = "close" /\ last'.code = 1000)
         => /\ connectionStatus' = "disconnected"
            /\ ~isConnected'
            /\ reconnectAttemptsRef' = reconnectAttemptsRef
            /\ timers' = timers
            /\ reconnectTimeoutRef' = reconnectTimeoutRef]_vars

C8_Witness ==
    /\ last.op = "close"
    /\ last.code = 1000
    /\ last.pre >= 1
    /\ reconnectAttemptsRef = last.pre
    /\ connectionStatus = "disconnected"

\* C9: disconnect() ends with ConnectionState disconnected, isConnected false,
\* attemptCount 0, no held socket and no timer handle, the socket it held
\* closed; the message log is untouched, and a second disconnect() right
\* after the first changes nothing.
C9_DisconnectResetsAll ==
    /\ [](last.op \in DisconnectOps
            => /\ connectionStatus = "disconnected"
               /\ ~isConnected
               /\ reconnectAttemptsRef = 0
               /\ wsRef = 0
               /\ reconnectTimeoutRef = 0)
    /\ [][last'.op \in DisconnectOps
            => /\ wsRef # 0 => sockets'[wsRef].phase \notin {"CONNECTING", "OPEN"}
               /\ reconnectTimeoutRef # 0
                    => timers'[reconnectTimeoutRef].status # "pending"
               /\ messages' = messages
               /\ lastMessage' = lastMessage]_vars
    /\ [][(last.op \in DisconnectOps /\ last'.op \in DisconnectOps)
            => UNCHANGED <<isConnected, connectionStatus, lastMessage, messages,
                           wsRef, reconnectTimeoutRef, reconnectAttemptsRef,
                           sockets, timers>>]_vars

C9_Witness ==
    /\ last.op = "disconnect"
    /\ last.pre >= 1
    /\ last.sock # 0
    /\ sockets[last.sock].phase = "ABORTING"
    /\ Len(messages) >= 1
    /\ reconnectAttemptsRef = 0
    /\ wsRef = 0

\* C10: a send while the held socket is absent or not open transmits nothing,
\* raises no error, emits one notification and changes neither
\* ConnectionState, attemptCount, the timer nor the message log; a send while
\* it is open transmits exactly one frame, at once.
C10_SendOnlyWhenOpen ==
    [][last'.op \in SendOps
         => /\ UNCHANGED <<isConnected, connectionStatus, lastMessage, messages,
                           wsRef, reconnectTimeoutRef, reconnectAttemptsRef,
                           timers>>
            /\ ~last'.threw
            /\ IF wsRef # 0 /\ sockets[wsRef].phase = "OPEN"
               THEN /\ last'.toasts = <<>>
                    /\ Len(sockets'[wsRef].sent) = Len(sockets[wsRef].sent) + 1
                    /\ LET f == sockets'[wsRef].sent[Len(sockets'[wsRef].sent)] IN
                         /\ f.by = "consumer"
                         /\ f.kind = IF last'.op = "sendMessage"
                                     THEN "json" ELSE "binary"
                    /\ \A s \in SocketSlots \ {wsRef} : sockets'[s] = sockets[s]
               ELSE /\ Len(last'.toasts) = 1
                    /\ sockets' = sockets]_vars

C10_Witness ==
    /\ last.op = "sendBinaryData"
    /\ Len(last.toasts) = 1
    /\ last.sock # 0
    /\ sockets[last.sock].phase = "CLOSED"
    /\ wsRef = last.sock
    /\ Len(messages) >= 1
    /\ connectionStatus = "disconnected"

\* C11: an inbound frame that is not valid JSON leaves the message log and the
\* last message exactly as they were, is not dispatched to the type handler
\* (no notification), and leaves ConnectionState, attemptCount, the timer and
\* every socket unchanged.
C11_UnparseableFrameDropped ==
    [][(last'.op = "message" /\ last'.arg[1] = "garbage")
         => /\ UNCHANGED <<lastMessage, messages, isConnected, connectionStatus,
                           wsRef, reconnectTimeoutRef, reconnectAttemptsRef,
                           sockets, timers>>
            /\ last'.toasts = <<>>
            /\ ~last'.threw]_vars

C11_Witness ==
    /\ last.op = "message"
    /\ last.arg = <<"garbage">>
    /\ Len(messages) = 1
    /\ lastMessage = messages[1]
    /\ lastMessage.type = "interview_question"
    /\ isConnected
    /\ connectionStatus = "connected"

\* C12: connect called (by a consumer or by a firing reconnect timer) while
\* the Auth Source reports unauthenticated, or while the token is absent, is a
\* no-op: no socket is created, ConnectionState does not change (it does not
\* become connecting), attemptCount is unchanged, a consumer's call leaves the
\* pending timer alone, and no error is raised to the caller.
C12_ConnectUnauthenticatedNoOp ==
    [][(last'.op \in {"connect", "timer"}
          /\ (~isAuthenticated \/ token = NoToken))
         => /\ UNCHANGED <<sockets, wsRef, isConnected, connectionStatus,
                           reconnectAttemptsRef>>
            /\ last'.op = "connect" => UNCHANGED <<reconnectTimeoutRef, timers>>
            /\ last'.toasts = <<>>
            /\ ~last'.threw]_vars

\* C13: connect called (by a consumer or by a firing reconnect timer) while the
\* held socket exists and is open is a no-op: no socket is created, the held
\* socket is kept, and ConnectionState, attemptCount and the message log are
\* unchanged.
C13_ConnectWhileOpenNoOp ==
    [][(last'.op \in {"connect", "timer"}
          /\ wsRef # 0 /\ sockets[wsRef].phase = "OPEN")
         => /\ UNCHANGED <<sockets, wsRef, isConnected, connectionStatus,
                           reconnectAttemptsRef, lastMessage, messages>>
            /\ ~last'.threw]_vars

\* a reconnect timer fires after a consumer's connect has opened a new socket
\* that received a frame
C13_Witness ==
    /\ last.op = "timer"
    /\ wsRef # 0
    /\ sockets[wsRef].phase = "OPEN"
    /\ connectionStatus = "connected"
    /\ Len(messages) >= 1
    /\ reconnectAttemptsRef = 0

\* C14: a transport error event sets ConnectionState to error and emits one
\* connection-error notification; it schedules no reconnect timer, creates no
\* socket and does not change attemptCount.  A reconnect timer is only ever
\* scheduled by the handling of a close event.
C14_ErrorSchedulesNothing ==
    /\ [][last'.op = "error"
            => /\ connectionStatus' = "error"
               /\ last'.toasts = <<TOAST_CONN_ERROR>>
               /\ UNCHANGED <<timers, reconnectTimeoutRef,
                              reconnectAttemptsRef, wsRef>>
               /\ \A s \in SocketSlots :
                    sockets'[s].phase \in {"CONNECTING", "OPEN"}
                        => sockets'[s] = sockets[s]]_vars
    /\ [][(\E k \in TimerSlots :
              timers'[k].status = "pending" /\ timers[k].status # "pending")
            => last'.op = "close"]_vars

\* the error of an established connection that has carried a consumer's frame
C14_Witness ==
    /\ last.op = "error"
    /\ connectionStatus = "error"
    /\ sockets[last.sock].phase = "FAILED"
    /\ wsRef = last.sock
    /\ isConnected
    /\ Pending = {}
    /\ Len(sockets[last.sock].sent) >= 2

\* C15: whenever the Auth Source changes from authenticated to
\* unauthenticated, the manager performs disconnect(): the held socket is
\* closed with code 1000 and released, any pending reconnect timer is
\* cancelled, ConnectionState becomes disconnected and attemptCount becomes 0.
C15_LogoutDisconnects ==
    [][(isAuthenticated /\ ~isAuthenticated')
         => /\ wsRef' = 0
            /\ wsRef # 0 => sockets'[wsRef].phase \notin {"CONNECTING", "OPEN"}
            /\ reconnectTimeoutRef' = 0
            /\ \A k \in TimerSlots : timers'[k].status # "pending"
            /\ connectionStatus' = "disconnected"
            /\ ~isConnected'
            /\ reconnectAttemptsRef' = 0]_vars

\* the value a frame of valid JSON stands for
Decoded(raw) ==
    IF raw[1] = "null" THEN NullValue ELSE [type |-> raw[2], data |-> raw[3]]

\* C16: the message log is the sequence of the inbound frames that parsed,
\* delivered since the last clearMessages, in delivery order, none lost and
\* none twice: a frame that parses is appended at the end, clearMessages
\* empties the log, and no other step (disconnect, reconnection, a close or an
\* error event among them) removes, adds or reorders an entry.
C16_LogIsParsedFramesInOrder ==
    [][CASE last'.op = "message" /\ last'.arg[1] # "garbage" ->
              messages' = Append(messages, Decoded(last'.arg))
         [] last'.op = "clear" -> messages' = <<>>
         [] OTHER -> messages' = messages]_vars

\* a reconnection after two different frames were received
C16_Witness ==
    /\ last.op = "timer"
    /\ wsRef # 0
    /\ sockets[wsRef].phase = "CONNECTING"
    /\ messages = <<[type |-> "connection_established", data |-> "<none>"],
                    [type |-> "error", data |-> "boom"]>>

\* C17: the last message is the last element of the message log whenever the
\* log is not empty, and null when the log is empty.
C17_LastMessageIsLogTail ==
    lastMessage = IF messages = <<>> THEN NullValue
                  ELSE messages[Len(messages)]

\* two different frames have arrived; the second one is the last message
C17_Witness ==
    /\ last.op = "message"
    /\ Len(messages) = 2
    /\ messages[1].type = "real_time_feedback"
    /\ messages[2].type = "coding_execution_result"
    /\ lastMessage = messages[2]

\* C18: clearMessages leaves the message log empty and the last message null,
\* and changes nothing else: ConnectionState, attemptCount, the timer and the
\* sockets (the frames they have sent included) are as they were.
C18_ClearTouchesOnlyTheLog ==
    [][last'.op = "clear"
         => /\ messages' = <<>>
            /\ lastMessage' = NullValue
            /\ UNCHANGED <<isAuthenticated, token, isConnected,
                           connectionStatus, wsRef, reconnectTimeoutRef,
                           reconnectAttemptsRef, sockets, timers>>
            /\ last'.toasts = <<>>
            /\ ~last'.threw]_vars

\* a log of two messages is cleared while the connection is in use
C18_Witness ==
    /\ last.op = "clear"
    /\ last.arg = <<2>>
    /\ messages = <<>>
    /\ lastMessage = NullValue
    /\ wsRef # 0
    /\ sockets[wsRef].phase = "OPEN"
    /\ Len(sockets[wsRef].sent) = 2
    /\ connectionStatus = "connected"

\* C19: the dispatch of a parsed message depends on its type only: a message
\* of type connection_established emits exactly one success notification; one
\* of type error emits exactly one failure notification that carries the
\* message's own text, or the generic text when it has none; the types
\* real_time_feedback, coding_execution_result, interview_question and every
\* unknown type emit no notification and raise no error.  In every case the
\* message becomes the last message and the last entry of the log, and
\* ConnectionState is unchanged.
C19_DispatchByType ==
    [][(last'.op = "message" /\ last'.arg[1] = "object")
         => LET type == last'.arg[2]
                data == last'.arg[3]
                message == [type |-> type, data |-> data]
            IN  /\ last'.toasts =
                     CASE type = "connection_established" ->
                            <<Toast("success", "Connected to HireSmart AI")>>
                       [] type = "error" /\ data # "<none>" ->
                            <<Toast("error", data)>>
                       [] type = "error" /\ data = "<none>" ->
                            <<Toast("error", "An error occurred")>>
                       [] OTHER -> <<>>
                /\ ~last'.threw
                /\ lastMessage' = message
                /\ messages' = Append(messages, message)
                /\ UNCHANGED <<isConnected, connectionStatus, wsRef,
                               reconnectTimeoutRef, reconnectAttemptsRef,
                               sockets, timers>>]_vars

\* a server error with its own text arrives after a message of unknown type
C19_Witness ==
    /\ last.op = "message"
    /\ last.arg = <<"object", "error", "boom">>
    /\ last.toasts = <<Toast("error", "boom")>>
    /\ messages = <<[type |-> "something_else", data |-> "<none>"],
                    [type |-> "error", data |-> "boom"]>>
    /\ connectionStatus = "connected"

\* C20: at any time at most one socket created by the manager is connecting
\* or open.
C20_AtMostOneLiveSocket ==
    Cardinality({s \in SocketSlots :
                   sockets[s].phase \in {"CONNECTING", "OPEN"}}) <= 1

\* C21: an open, close or error event of a socket that is not the held
\* reference (released by disconnect() or replaced by a later connect) changes
\* nothing of the manager's state: ConnectionState, isConnected and
\* attemptCount stay as they are, no timer becomes pending, and no frame is
\* sent on the socket that is held.
C21_DiscardedSocketEventsIgnored ==
    [][(last'.op \in {"open", "close", "error"} /\ last'.sock # wsRef)
         => /\ UNCHANGED <<connectionStatus, isConnected, reconnectAttemptsRef,
                           reconnectTimeoutRef>>
            /\ \A k \in TimerSlots :
                 timers'[k].status = "pending" => timers[k].status = "pending"
            /\ wsRef # 0 => sockets'[wsRef].sent = sockets[wsRef].sent]_vars

\* C22: after an explicit disconnect() no reconnect timer is scheduled and no
\* socket is created by any later event until a consumer calls connect again,
\* even when the close event of the socket that disconnect() closed arrives
\* afterwards with a code other than 1000.  (wsRef is null from a disconnect(),
\* or from the start, until the next socket is created, so the steps concerned
\* are those taken while wsRef is null.)
C22_NothingAfterDisconnect ==
    [][(wsRef = 0 /\ last'.op # "connect")
         => /\ \A k \in TimerSlots :
                 timers'[k].status = "pending" => timers[k].status = "pending"
            /\ \A s \in SocketSlots :
                 sockets'[s].phase = "CONNECTING"
                     => sockets[s].phase = "CONNECTING"
            /\ wsRef' = 0]_vars

\* C23: in every reachable state isConnected is true if and only if
\* ConnectionState is connected.
C23_IsConnectedIffConnected ==
    isConnected <=> (connectionStatus = "connected")

\* C24: every change of ConnectionState follows the documented state machine:
\* connecting is entered only from disconnected, by connect; connected only
\* from connecting, on open; error only from connecting or connected, on a
\* transport fault (a connect whose socket construction throws has set
\* connecting first, so it may start from disconnected); disconnected only on
\* a close event or on disconnect().
C24_DocumentedTransitionsOnly ==
    [][connectionStatus' # connectionStatus
         => CASE connectionStatus' = "connecting" ->
                   /\ connectionStatus = "disconnected"
                   /\ last'.op \in {"connect", "timer"}
              [] connectionStatus' = "connected" ->
                   /\ connectionStatus = "connecting"
                   /\ last'.op = "open"
              [] connectionStatus' = "error" ->
                   \/ /\ connectionStatus \in {"connecting", "connected"}
                      /\ last'.op = "error"
                   \/ /\ connectionStatus \in {"disconnected", "connecting"}
                      /\ last'.op \in {"connect", "timer"}
              [] connectionStatus' = "disconnected" ->
                   last'.op \in {"close"} \cup DisconnectOps]_vars

\* the manager is at rest: no timer is pending and no socket can deliver an
\* event any more
AtRest ==
    /\ Pending = {}
    /\ \A s \in SocketSlots : sockets[s].phase \in {"FREE", "CLOSED"}

\* C25: in a run in which no connection ever opens and no consumer calls
\* connect or disconnect after the initial connect, at most 5 reconnect timers
\* are ever scheduled (each scheduling counts one attempt, the count never
\* goes down and never passes 5), and the system eventually reaches, and
\* stays in, a state with ConnectionState disconnected, no timer pending and
\* no further automatic step possible.
C25_GivesUpAfterFiveTries ==
    /\ [][/\ reconnectAttemptsRef' >= reconnectAttemptsRef
          /\ reconnectAttemptsRef' <= maxReconnectAttempts
          /\ \A k \in TimerSlots :
               (timers'[k].status = "pending" /\ timers[k].status # "pending")
                   => reconnectAttemptsRef' = reconnectAttemptsRef + 1]_vars
    /\ (wsRef # 0) ~> [](connectionStatus = "disconnected" /\ AtRest)

\* the sixth failure in a row has been handled
C25_Witness ==
    /\ AtRest
    /\ wsRef # 0
    /\ connectionStatus = "disconnected"
    /\ reconnectAttemptsRef = maxReconnectAttempts
    /\ failures = 6

\* C26: at most one reconnect timer is pending at any time, and whenever a
\* timer is pending the stored handle refers to it.
C26_OnePendingTimerHeld ==
    /\ Cardinality(Pending) <= 1
    /\ \A k \in Pending : reconnectTimeoutRef = k

\* C27: while the Auth Source reports unauthenticated no socket is created and
\* no auth frame is sent, by any path: neither a consumer's connect nor a
\* reconnect timer scheduled earlier opens a connection or transmits a
\* captured token after logout.
C27_NothingWhileLoggedOut ==
    [][(~isAuthenticated /\ ~isAuthenticated')
         => \A s \in SocketSlots :
              /\ sockets'[s].phase = "CONNECTING"
                     => sockets[s].phase = "CONNECTING"
              /\ (Len(sockets'[s].sent) > Len(sockets[s].sent)
                     => sockets'[s].sent[Len(sockets'[s].sent)].type # "auth")]_vars

\* the retries are exhausted: the step just taken handled an unexpected close
\* while attemptCount was maxAttempts, and no timer is pending
Exhausted ==
    /\ last.op = "close"
    /\ last.code # NORMAL_CLOSURE
    /\ last.pre = maxReconnectAttempts
    /\ reconnectAttemptsRef = maxReconnectAttempts
    /\ Pending = {}

\* C28: once an unexpected close has been handled with attemptCount =
\* maxAttempts and no timer pending, ConnectionState stays disconnected and no
\* socket is created unless a consumer calls connect: no step other than a
\* consumer's connect takes the manager out of the exhausted state into
\* another ConnectionState or creates a socket.
C28_NoRecoveryFromExhausted ==
    [][(Exhausted /\ last'.op # "connect")
         => /\ connectionStatus = "disconnected"
            /\ connectionStatus' = "disconnected"
            /\ \A s \in SocketSlots :
                 sockets'[s].phase = "CONNECTING"
                     => sockets[s].phase = "CONNECTING"]_vars

\* C29: whenever isConnected is true the held socket reference exists and is
\* open, so a send by a caller that has checked isConnected transmits.
C29_IsConnectedMeansOpen ==
    isConnected => (wsRef # 0 /\ sockets[wsRef].phase = "OPEN")

\* C30: in every reachable state ConnectionState = connected implies
\* attemptCount = 0 and no reconnect timer pending.
C30_ConnectedMeansNoRetryState ==
    connectionStatus = "connected"
        => (reconnectAttemptsRef = 0 /\ Pending = {})

\* C31: in every reachable state, under any interleaving of connect,
\* disconnect, timer firings and socket events (events of several sockets
\* included), attemptCount is an integer with 0 <= attemptCount <= 5.
C31_AttemptsInRange ==
    /\ reconnectAttemptsRef \in Int
    /\ 0 <= reconnectAttemptsRef
    /\ reconnectAttemptsRef <= maxReconnectAttempts

\* a close arrives while the count is at its ceiling and leaves it there,
\* with another socket still live
C31_Witness ==
    /\ reconnectAttemptsRef = maxReconnectAttempts
    /\ last.op = "close"
    /\ last.code # NORMAL_CLOSURE
    /\ last.pre = maxReconnectAttempts
    /\ Live # {}

====
